---- MODULE Spec2Model ----
(***************************************************************************)
(* ChatLab renderer: the chat store (session list, selection, import with  *)
(* its progress queue), the settings modal, and two presentation helpers   *)
(* (truncateContent, getRelativePercentage).                               *)
(*                                                                         *)
(* Time is in milliseconds and advances in steps of TickMs (the greatest   *)
(* common divisor of every delay the store uses).  Every time the model    *)
(* keeps (lastStageTime, the deadlines of pending setTimeouts) is measured *)
(* from the present instant, so Date.now() is 0, a time in the past is     *)
(* negative and a deadline still ahead is positive; a tick of the clock    *)
(* moves them all TickMs towards the past.  The code reads a past time     *)
(* only to compare its age with MIN_STAGE_TIME, so ages stop growing       *)
(* there.  A setTimeout callback runs when its deadline is reached, and    *)
(* the clock does not pass a pending deadline.                             *)
(***************************************************************************)
EXTENDS Integers, Sequences, FiniteSets, TLC

(* ---------------------------- bounds ---------------------------------- *)
MaxCalls == 1
MaxEvents == 2
MaxContentLen == 3
MaxMembers == 3
MaxValue == 2
MaxMounts == 2
MaxFetches == 2
MaxChecks == 3
MaxLoads == 2
MaxReuses == 1

(* ---------------------- program constants ----------------------------- *)
MIN_STAGE_TIME == 1000
POLL_INTERVAL == 100
SHOW_FULL_TIME == 300
CLEAR_DELAY == 500
TickMs == POLL_INTERVAL
\* Date.now(), the origin of the time scale
now == 0

Null == "null"
\* layoutStore.settingTarget === null
NoTarget == [tab |-> "null", section |-> ""]
NoTimer == -1
\* importProgress.value === null
NullProgress == [stage |-> "null", progress |-> 0, seq |-> 0]
Calls == 1..MaxCalls
SessionIds == {"s1", "s2"}
\* the id the import pipeline gives the session it creates
ImportedId == "s2"
Stages == {"detecting", "reading", "done"}
ErrorMessages == {"", "bad file"}
DEFAULT_IMPORT_ERROR == "import failed"

VARIABLES
    \* ---- chat store refs
    sessions, currentSessionId, isImporting, importProgress, isInitialized,
    \* ---- importFileFromPath, one closure per call
    pc, queue, isProcessing, currentStage, lastStageTime, subscribed,
    importResult, ret, wake, pqWake, clearAt,
    \* ---- environment of the import
    delivered,
    \* ---- the clear timers still pending of calls whose closure is gone, and
    \* ---- how many times the record of such a call was taken for a new call
    staleClear, reuses,
    \* ---- history of the import (what the closure received and displayed)
    received, shown, shownSince, minDisplay, activeLoops,
    \* ---- loadSessions and deleteSession called on their own
    loadPc, loadReply, delPc, delId, delReply, delRet, before,
    \* ---- truncateContent(content, maxLength) and its result
    argContent, argMaxLength, truncated, truncateDone,
    \* ---- the ranking list: props, the index asked for and the percentage
    members, rankLimit, argIndex, percentage, percentageDone,
    \* ---- the settings modal
    open, activeTab, settingTarget, scrollTimers,
    \* ---- which version of the modal runs, and the tab shown at its last close
    modalVersion, tabAtClose,
    \* ---- the changelog modal: localStorage, the app's version, the mounted
    \* ---- instance and its refs, the checkNewVersion run of each instance
    agreementVersion, readVersionStored, appVersion, live,
    showModal, isLoading, loadError, changelogs, currentAppVersion,
    openPending, fetchPending,
    checkPc, checkVersion, checkRead, checkData,
    \* ---- history of the changelog modal
    checkAgreed, checkFetched, checkOpened, autoOpenedFor, openedAtMount, lastSettle,
    \* ---- the auto-updater: checkUpdate's flags, the check in flight, the open
    \* ---- dialogs, the download and the pending install timers
    isFirstShow, showUpdateMessageBox, startupPending, checkInFlight, checksMade,
    availableDialogs, downloadedDialogs, downloading, downloadPercent,
    installTimers, isQuiting, appQuit,
    \* ---- history of the auto-updater
    availableEvents, downloadCalls, installCalls, availableAnswered,
    downloadedAnswered, silencedChecks, messagedChecks,
    \* ---- the timeline page: its props, the nickname list, and the pending
    \* ---- loadMembersWithNicknameChanges calls with what each one asked for
    propSessionId, memberActivity, membersWithNicknameChanges, isLoadingHistory,
    historyPc, historyAsked,
    \* ---- history of the timeline page: the last call that completed
    lastLoad

storeVars == <<sessions, currentSessionId, isImporting, importProgress, isInitialized>>
importVars == <<pc, queue, isProcessing, currentStage, lastStageTime, subscribed,
                importResult, ret, wake, pqWake, clearAt>>
reuseVars == <<staleClear, reuses>>
envVars == <<delivered, reuseVars>>
histVars == <<received, shown, shownSince, minDisplay, activeLoops>>
opVars == <<loadPc, loadReply, delPc, delId, delReply, delRet, before>>
truncVars == <<argContent, argMaxLength, truncated, truncateDone>>
rankVars == <<members, rankLimit, argIndex, percentage, percentageDone>>
modalVars == <<open, activeTab, settingTarget, scrollTimers, modalVersion, tabAtClose>>
changelogVars == <<agreementVersion, readVersionStored, appVersion, live,
                  showModal, isLoading, loadError, changelogs, currentAppVersion,
                  openPending, fetchPending,
                  checkPc, checkVersion, checkRead, checkData,
                  checkAgreed, checkFetched, checkOpened, autoOpenedFor, openedAtMount,
                  lastSettle>>
updaterVars == <<isFirstShow, showUpdateMessageBox, startupPending, checkInFlight,
                checksMade, availableDialogs, downloadedDialogs, downloading,
                downloadPercent, installTimers, isQuiting, appQuit,
                availableEvents, downloadCalls, installCalls, availableAnswered,
                downloadedAnswered, silencedChecks, messagedChecks>>
nicknameVars == <<propSessionId, memberActivity, membersWithNicknameChanges,
                 isLoadingHistory, historyPc, historyAsked, lastLoad>>
pageVars == <<changelogVars, updaterVars, nicknameVars>>
viewVars == <<truncVars, rankVars, modalVars, pageVars>>
otherVars == <<opVars, viewVars>>
vars == <<storeVars, importVars, envVars, histVars, otherVars>>

(* ------------------------- JavaScript helpers -------------------------- *)
Min(a, b) == IF a < b THEN a ELSE b

\* JavaScript truthiness of an optional string: null, undefined and '' are falsy.
Truthy(x) == x # Null /\ x # ""

\* String(error) of an Error object carrying message m.
StringOfError(m) == "Error: " \o m

\* The lists getSessions can return: session ids are unique keys.
SessionLists ==
    {l \in UNION {[1..n -> SessionIds] : n \in 0..Cardinality(SessionIds)} :
        \A i, j \in 1..Len(l) : l[i] = l[j] => i = j}

\* list.find((s) => s.id === id) is defined
HasSession(list, id) == \E i \in 1..Len(list) : list[i] = id

\* Replies of window.chatApi.getSessions(): a list, or a rejection.
GetSessionsReplies ==
    {[ok |-> TRUE, list |-> l] : l \in SessionLists} \cup {[ok |-> FALSE, list |-> <<>>]}

\* Settlements of window.chatApi.import(filePath): a result object, or a rejection.
\* An absent sessionId / error is the empty (falsy) string.
ImportSettlements ==
    {[threw |-> FALSE, success |-> TRUE, sessionId |-> s, error |-> ""] :
        s \in {ImportedId, ""}}
    \cup {[threw |-> FALSE, success |-> FALSE, sessionId |-> "", error |-> e] :
        e \in ErrorMessages}
    \cup {[threw |-> TRUE, success |-> FALSE, sessionId |-> "", error |-> "ipc failed"]}

NoResult == [threw |-> FALSE, success |-> FALSE, sessionId |-> "", error |-> "none"]
NoReturn == [success |-> FALSE, error |-> "pending"]

\* The progress objects the import pipeline sends; seq is the object's identity.
ProgressEvent(stage, n) == [stage |-> stage, progress |-> 50, seq |-> n]

(* ----------------------------- loadSessions ---------------------------- *)
\* (mutant) the catch block only logs: isInitialized is set on success alone
LoadSessionsCatchOnlyLogs(reply, sess, cur) ==
    IF reply.ok
    THEN [sessions |-> reply.list,
          currentSessionId |->
              IF Truthy(cur) /\ ~HasSession(reply.list, cur) THEN Null ELSE cur,
          isInitialized |-> TRUE]
    ELSE [sessions |-> sess, currentSessionId |-> cur, isInitialized |-> isInitialized]

\* (mutant) the selection is not checked against the new list
LoadSessionsKeepsSelection(reply, sess, cur) ==
    IF reply.ok
    THEN [sessions |-> reply.list, currentSessionId |-> cur, isInitialized |-> TRUE]
    ELSE [sessions |-> sess, currentSessionId |-> cur, isInitialized |-> TRUE]

\* The body of loadSessions once getSessions has settled with reply.
LoadSessionsBody(reply, sess, cur) ==
    IF reply.ok
    THEN [sessions |-> reply.list,
          currentSessionId |->
              IF Truthy(cur) /\ ~HasSession(reply.list, cur) THEN Null ELSE cur,
          isInitialized |-> TRUE]
    ELSE [sessions |-> sess, currentSessionId |-> cur, isInitialized |-> TRUE]

(* ------------------- importFileFromPath: progress queue ---------------- *)
\* The closure of call c together with the store state its queue touches.
Closure(c) ==
    [queue |-> queue[c], isProcessing |-> isProcessing[c],
     currentStage |-> currentStage[c], lastStageTime |-> lastStageTime[c],
     pqWake |-> pqWake[c], received |-> received[c], shown |-> shown[c],
     importProgress |-> importProgress, shownSince |-> shownSince,
     minDisplay |-> minDisplay, activeLoops |-> activeLoops[c]]

\* (mutant) queue.unshift(progress): the newest event jumps the queue
QueueUnshift(q, progress) == <<progress>> \o q

\* queue.push(progress)
QueuePush(q, progress) == Append(q, progress)

\* importProgress.value = queue.shift()!   (at time t)
\* History: how long the stage it replaces had been on display.
Display(r, t) ==
    LET next == Head(r.queue)
        replaces == r.importProgress # NullProgress /\ r.importProgress.stage # next.stage
    IN  [r EXCEPT !.importProgress = next,
                  !.queue = Tail(r.queue),
                  !.shown = Append(r.shown, next),
                  !.shownSince = IF replaces \/ r.importProgress = NullProgress THEN t ELSE @,
                  !.minDisplay = IF replaces THEN Min(@, t - r.shownSince) ELSE @]

\* currentStage = next.stage; lastStageTime = Date.now()
SetStage(r, next, t) == [r EXCEPT !.currentStage = next.stage, !.lastStageTime = t]

\* The while loop of processQueue, run at time t until it awaits or the queue is empty.
RECURSIVE DrainLoop(_, _)
DrainLoop(r, t) ==
    IF r.queue = <<>>
    THEN [r EXCEPT !.isProcessing = FALSE, !.activeLoops = @ - 1]
    ELSE LET next == Head(r.queue)
             elapsed == t - r.lastStageTime
         IN  IF next.stage # r.currentStage
             THEN IF elapsed < MIN_STAGE_TIME
                  THEN [r EXCEPT !.pqWake = t + (MIN_STAGE_TIME - elapsed)]
                  ELSE DrainLoop(Display(SetStage(r, next, t), t), t)
             ELSE DrainLoop(Display(r, t), t)

\* (mutant) processQueue without its isProcessing test: every call runs the loop
ProcessQueueUnguarded(r, t) ==
    DrainLoop([r EXCEPT !.isProcessing = TRUE, !.activeLoops = @ + 1], t)

\* processQueue(): a second call while one is running returns at once.
\* History: the number of loops that have started and not yet ended.
ProcessQueue(r, t) ==
    IF r.isProcessing THEN r
    ELSE DrainLoop([r EXCEPT !.isProcessing = TRUE, !.activeLoops = @ + 1], t)

\* (mutant) the callback without its test for 'done': every event is queued
OnImportProgressKeepsDone(r, progress, t) ==
    ProcessQueue([r EXCEPT !.queue = QueuePush(@, progress),
                           !.received = Append(@, progress)], t)

\* The onImportProgress callback of one call.
OnImportProgress(r, progress, t) ==
    IF progress.stage = "done"
    THEN r
    ELSE ProcessQueue([r EXCEPT !.queue = QueuePush(@, progress),
                                !.received = Append(@, progress)], t)

\* processQueue resumes after its setTimeout: lines 166-171, then the loop again.
ResumeDrain(r, t) ==
    DrainLoop(Display(SetStage([r EXCEPT !.pqWake = NoTimer], Head(r.queue), t), t), t)

\* The event is handed to every subscribed callback, in subscription order.
\* g carries the store state and the closures updated so far.
RECURSIVE DeliverFrom(_, _, _)
DeliverFrom(c, progress, g) ==
    IF c > MaxCalls THEN g
    ELSE IF ~subscribed[c] THEN DeliverFrom(c + 1, progress, g)
    ELSE LET r == OnImportProgress(
                      [Closure(c) EXCEPT !.importProgress = g.importProgress,
                                         !.shownSince = g.shownSince,
                                         !.minDisplay = g.minDisplay],
                      progress, now)
         IN  DeliverFrom(c + 1, progress,
                 [importProgress |-> r.importProgress, shownSince |-> r.shownSince,
                  minDisplay |-> r.minDisplay, cl |-> [g.cl EXCEPT ![c] = r]])

\* Write the closures cl and the store state of g back.
StoreClosures(g) ==
    /\ queue' = [c \in Calls |-> g.cl[c].queue]
    /\ isProcessing' = [c \in Calls |-> g.cl[c].isProcessing]
    /\ currentStage' = [c \in Calls |-> g.cl[c].currentStage]
    /\ lastStageTime' = [c \in Calls |-> g.cl[c].lastStageTime]
    /\ pqWake' = [c \in Calls |-> g.cl[c].pqWake]
    /\ received' = [c \in Calls |-> g.cl[c].received]
    /\ shown' = [c \in Calls |-> g.cl[c].shown]
    /\ activeLoops' = [c \in Calls |-> g.cl[c].activeLoops]
    /\ importProgress' = g.importProgress
    /\ shownSince' = g.shownSince
    /\ minDisplay' = g.minDisplay

\* The closures with that of call c replaced by r, and r's view of the store.
WithClosure(c, r) ==
    [importProgress |-> r.importProgress, shownSince |-> r.shownSince,
     minDisplay |-> r.minDisplay,
     cl |-> [d \in Calls |-> IF d = c THEN r ELSE Closure(d)]]

(* ------------------- importFileFromPath: the call itself --------------- *)
InitialStage == "detecting"
InitialCurrentStage == "reading"

\* A returned call whose callback is unsubscribed and whose processQueue has
\* ended: nothing refers to its closure any more.
Collectable(d) ==
    /\ pc[d] = "returned"
    /\ ~subscribed[d]
    /\ ~isProcessing[d]
    /\ queue[d] = <<>>

\* try { isImporting = true; importProgress = {...}; queue = []; ...;
\*       onImportProgress(cb); await window.chatApi.import(filePath)
\* Calls are made one after another: the next starts once the previous returned
\* and its caller has taken the returned value; the record of a collectable
\* closure is dropped then.
StartImport(c) ==
    /\ pc[c] = "idle"
    /\ \A d \in Calls : d < c => pc[d] = "returned"
    /\ isImporting' = TRUE
    /\ importProgress' = [stage |-> InitialStage, progress |-> 0, seq |-> 0]
    /\ queue' = [queue EXCEPT ![c] = <<>>]
    /\ isProcessing' = [isProcessing EXCEPT ![c] = FALSE]
    /\ currentStage' = [d \in Calls |->
            IF d = c \/ Collectable(d) THEN InitialCurrentStage ELSE currentStage[d]]
    /\ lastStageTime' = [d \in Calls |->
            IF d = c THEN now ELSE IF Collectable(d) THEN 0 ELSE lastStageTime[d]]
    /\ subscribed' = [subscribed EXCEPT ![c] = TRUE]
    /\ pc' = [pc EXCEPT ![c] = "importing"]
    /\ importResult' = [d \in Calls |-> IF Collectable(d) THEN NoResult ELSE importResult[d]]
    /\ ret' = [d \in Calls |-> IF Collectable(d) THEN NoReturn ELSE ret[d]]
    /\ received' = [d \in Calls |-> IF Collectable(d) THEN <<>> ELSE received[d]]
    /\ shown' = [d \in Calls |-> IF Collectable(d) THEN <<>> ELSE shown[d]]
    /\ shownSince' = now
    /\ minDisplay' = MIN_STAGE_TIME
    /\ UNCHANGED <<sessions, currentSessionId, isInitialized, wake,
                   pqWake, clearAt, delivered, reuseVars, activeLoops, otherVars>>

\* The pipeline of the running import sends one progress event.
DeliverProgress(stage) ==
    /\ delivered < MaxEvents
    /\ \E c \in Calls : pc[c] = "importing"
    /\ delivered' = delivered + 1
    /\ StoreClosures(DeliverFrom(1, ProgressEvent(stage, delivered + 1),
           [importProgress |-> importProgress, shownSince |-> shownSince,
            minDisplay |-> minDisplay, cl |-> [d \in Calls |-> Closure(d)]]))
    /\ UNCHANGED <<sessions, currentSessionId, isImporting, isInitialized, pc, subscribed,
                   importResult, ret, wake, clearAt, reuseVars, otherVars>>

\* The setTimeout processQueue awaits has fired.
ProcessQueueWake(c) ==
    /\ pqWake[c] # NoTimer
    /\ pqWake[c] <= now
    /\ StoreClosures(WithClosure(c, ResumeDrain(Closure(c), now)))
    /\ UNCHANGED <<sessions, currentSessionId, isImporting, isInitialized, pc, subscribed,
                   importResult, ret, wake, clearAt, delivered, reuseVars, otherVars>>

\* finally { isImporting = false; setTimeout(() => importProgress = null, 500) }
\* with the value the call returns.
Finish(c, r) ==
    /\ ret' = [ret EXCEPT ![c] = r]
    /\ pc' = [pc EXCEPT ![c] = "returned"]
    /\ wake' = [wake EXCEPT ![c] = NoTimer]
    /\ isImporting' = FALSE
    /\ clearAt' = [clearAt EXCEPT ![c] = now + CLEAR_DELAY]

\* if (importProgress.value) importProgress.value.progress = 100; then wait 300 ms.
\* History: how long the last stage had been on display when the bar is completed.
CompleteBar ==
    [pc |-> "show100", wake |-> now + SHOW_FULL_TIME,
     importProgress |->
         IF importProgress # NullProgress THEN [importProgress EXCEPT !.progress = 100]
         ELSE importProgress,
     minDisplay |->
         IF importProgress # NullProgress THEN Min(minDisplay, now - shownSince) ELSE minDisplay]

\* const elapsed = Date.now() - lastStageTime; wait out the rest of MIN_STAGE_TIME.
EnsureLastStage(c) ==
    LET elapsed == now - lastStageTime[c]
    IN  IF elapsed < MIN_STAGE_TIME
        THEN [pc |-> "lastWait", wake |-> now + (MIN_STAGE_TIME - elapsed),
              importProgress |-> importProgress, minDisplay |-> minDisplay]
        ELSE CompleteBar

\* while (queue.length > 0 || isProcessing) await 100 ms
WaitQueue(c) ==
    IF queue[c] # <<>> \/ isProcessing[c]
    THEN [pc |-> "polling", wake |-> now + POLL_INTERVAL,
          importProgress |-> importProgress, minDisplay |-> minDisplay]
    ELSE EnsureLastStage(c)

\* The call moves on to the position k describes.
Proceed(c, k) ==
    /\ pc' = [pc EXCEPT ![c] = k.pc]
    /\ wake' = [wake EXCEPT ![c] = k.wake]
    /\ importProgress' = k.importProgress
    /\ minDisplay' = k.minDisplay

\* window.chatApi.import settles with a result object: unsubscribe, wait for the queue.
ImportResolve(c, res) ==
    /\ pc[c] = "importing"
    /\ ~res.threw
    /\ importResult' = [importResult EXCEPT ![c] = res]
    /\ subscribed' = [subscribed EXCEPT ![c] = FALSE]
    /\ Proceed(c, WaitQueue(c))
    /\ UNCHANGED <<sessions, currentSessionId, isImporting, isInitialized, queue,
                   isProcessing, currentStage, lastStageTime, ret, pqWake, clearAt, delivered, reuseVars, received, shown, activeLoops, shownSince, otherVars>>

\* window.chatApi.import rejects: catch, finally.  The callback stays subscribed.
ImportReject(c, res) ==
    /\ pc[c] = "importing"
    /\ res.threw
    /\ importResult' = [importResult EXCEPT ![c] = res]
    /\ Finish(c, [success |-> FALSE, error |-> StringOfError(res.error)])
    /\ UNCHANGED <<sessions, currentSessionId, importProgress, isInitialized, queue,
                   isProcessing, currentStage, lastStageTime, subscribed, pqWake, delivered, reuseVars, received, shown, activeLoops, shownSince, minDisplay, otherVars>>

\* The 100 ms timer of the wait loop has fired: test the loop condition again.
PollWake(c) ==
    /\ pc[c] = "polling"
    /\ wake[c] <= now
    /\ Proceed(c, WaitQueue(c))
    /\ UNCHANGED <<sessions, currentSessionId, isImporting, isInitialized, queue,
                   isProcessing, currentStage, lastStageTime, subscribed, importResult,
                   ret, pqWake, clearAt, delivered, reuseVars, received, shown, activeLoops, shownSince,
                   otherVars>>

\* The timer that completes the last stage's minimum time has fired.
LastWaitWake(c) ==
    /\ pc[c] = "lastWait"
    /\ wake[c] <= now
    /\ Proceed(c, CompleteBar)
    /\ UNCHANGED <<sessions, currentSessionId, isImporting, isInitialized, queue,
                   isProcessing, currentStage, lastStageTime, subscribed, importResult,
                   ret, pqWake, clearAt, delivered, reuseVars, received, shown, activeLoops, shownSince,
                   otherVars>>

\* (mutant) if (importResult.success): the sessionId is not looked at
ImportReportedSuccess(res) == res.success

\* if (importResult.success && importResult.sessionId)
ImportSucceeded(res) == res.success /\ Truthy(res.sessionId)

\* The 300 ms timer has fired and the import succeeded: await loadSessions().
Show100WakeSuccess(c) ==
    /\ pc[c] = "show100"
    /\ wake[c] <= now
    /\ ImportSucceeded(importResult[c])
    /\ pc' = [pc EXCEPT ![c] = "loading"]
    /\ wake' = [wake EXCEPT ![c] = NoTimer]
    /\ UNCHANGED <<storeVars, queue, isProcessing, currentStage, lastStageTime,
                   subscribed, importResult, ret, pqWake, clearAt, envVars, histVars,
                   otherVars>>

\* The 300 ms timer has fired and the import failed:
\* return { success: false, error: importResult.error || default }
Show100WakeFailure(c) ==
    /\ pc[c] = "show100"
    /\ wake[c] <= now
    /\ ~ImportSucceeded(importResult[c])
    /\ Finish(c, [success |-> FALSE,
                  error |-> IF Truthy(importResult[c].error) THEN importResult[c].error
                            ELSE DEFAULT_IMPORT_ERROR])
    /\ UNCHANGED <<sessions, currentSessionId, importProgress, isInitialized, queue,
                   isProcessing, currentStage, lastStageTime, subscribed, importResult,
                   pqWake, envVars, histVars, otherVars>>

\* (mutant) currentSessionId = importResult.sessionId; await loadSessions():
\* the selection is made first and loadSessions may clear it again.
SelectBeforeReload(c, reply) ==
    LoadSessionsBody(reply, sessions, importResult[c].sessionId).currentSessionId

\* await loadSessions(); currentSessionId.value = importResult.sessionId
SelectImported(c, reply) == importResult[c].sessionId

\* getSessions settles inside the import's loadSessions(); the new session is
\* selected and the call returns { success: true }.
ImportLoaded(c, reply) ==
    /\ pc[c] = "loading"
    /\ LET loaded == LoadSessionsBody(reply, sessions, currentSessionId)
       IN  /\ sessions' = loaded.sessions
           /\ isInitialized' = loaded.isInitialized
    /\ currentSessionId' = SelectImported(c, reply)
    /\ Finish(c, [success |-> TRUE, error |-> ""])
    /\ UNCHANGED <<importProgress, queue, isProcessing, currentStage, lastStageTime,
                   subscribed, importResult, pqWake, envVars, histVars, otherVars>>

\* setTimeout(() => { importProgress.value = null }, 500) has fired.
ClearProgress(c) ==
    /\ clearAt[c] # NoTimer
    /\ clearAt[c] <= now
    /\ importProgress' = NullProgress
    /\ clearAt' = [clearAt EXCEPT ![c] = NoTimer]
    /\ UNCHANGED <<sessions, currentSessionId, isImporting, isInitialized, pc, queue,
                   isProcessing, currentStage, lastStageTime, subscribed, importResult,
                   ret, wake, pqWake, envVars, histVars, otherVars>>

\* importFileFromPath is called again after call c returned and nothing refers
\* to c's closure any more: the new call takes c's record.  The clear timer c
\* armed in its finally is not cancelled and stays pending.
ImportAgain(c) ==
    /\ reuses < MaxReuses
    /\ Collectable(c)
    /\ \A d \in Calls : pc[d] \in {"idle", "returned"}
    /\ reuses' = reuses + 1
    /\ staleClear' = staleClear \cup ({clearAt[c]} \ {NoTimer})
    /\ clearAt' = [clearAt EXCEPT ![c] = NoTimer]
    /\ isImporting' = TRUE
    /\ importProgress' = [stage |-> InitialStage, progress |-> 0, seq |-> 0]
    /\ queue' = [queue EXCEPT ![c] = <<>>]
    /\ isProcessing' = [isProcessing EXCEPT ![c] = FALSE]
    /\ currentStage' = [currentStage EXCEPT ![c] = InitialCurrentStage]
    /\ lastStageTime' = [lastStageTime EXCEPT ![c] = now]
    /\ subscribed' = [subscribed EXCEPT ![c] = TRUE]
    /\ pc' = [pc EXCEPT ![c] = "importing"]
    /\ importResult' = [importResult EXCEPT ![c] = NoResult]
    /\ ret' = [ret EXCEPT ![c] = NoReturn]
    /\ received' = [received EXCEPT ![c] = <<>>]
    /\ shown' = [shown EXCEPT ![c] = <<>>]
    /\ shownSince' = now
    /\ minDisplay' = MIN_STAGE_TIME
    /\ UNCHANGED <<sessions, currentSessionId, isInitialized, wake, pqWake,
                   delivered, activeLoops, otherVars>>

\* setTimeout(() => { importProgress.value = null }, 500) of a call whose
\* closure is gone has fired.
StaleClearFires ==
    /\ \E t \in staleClear :
          /\ t <= now
          /\ staleClear' = staleClear \ {t}
    /\ importProgress' = NullProgress
    /\ UNCHANGED <<sessions, currentSessionId, isImporting, isInitialized, importVars,
                   delivered, reuses, histVars, otherVars>>

\* A timer whose deadline the clock has reached.
TimerDue ==
    \E c \in Calls :
        \/ wake[c] # NoTimer /\ wake[c] <= now
        \/ pqWake[c] # NoTimer /\ pqWake[c] <= now
        \/ clearAt[c] # NoTimer /\ clearAt[c] <= now
        \/ \E t \in staleClear : t <= now

\* A time t in the past, one tick later.
Older(t) == IF t - TickMs < now - MIN_STAGE_TIME THEN now - MIN_STAGE_TIME ELSE t - TickMs

\* A deadline t, one tick later.
Nearer(t) == IF t = NoTimer THEN NoTimer ELSE t - TickMs

\* The clock advances by TickMs.
Tick ==
    /\ ~TimerDue
    /\ lastStageTime' = [c \in Calls |->
            IF pc[c] = "idle" \/ Collectable(c) THEN lastStageTime[c]
            ELSE Older(lastStageTime[c])]
    /\ wake' = [c \in Calls |-> Nearer(wake[c])]
    /\ pqWake' = [c \in Calls |-> Nearer(pqWake[c])]
    /\ clearAt' = [c \in Calls |-> Nearer(clearAt[c])]
    /\ shownSince' = IF importProgress = NullProgress THEN shownSince ELSE Older(shownSince)
    /\ staleClear' = {Nearer(t) : t \in staleClear}
    /\ UNCHANGED <<storeVars, pc, queue, isProcessing, currentStage, subscribed,
                   importResult, ret, delivered, reuses, received, shown, activeLoops, minDisplay, otherVars>>

\* The store as constructed.  currentSessionId is persisted in sessionStorage:
\* cur is the value restored from it (null when nothing was stored).
InitStore(cur) ==
    /\ sessions = <<>>
    /\ currentSessionId = cur
    /\ isImporting = FALSE
    /\ importProgress = NullProgress
    /\ isInitialized = FALSE

InitImport ==
    /\ pc = [c \in Calls |-> "idle"]
    /\ queue = [c \in Calls |-> <<>>]
    /\ isProcessing = [c \in Calls |-> FALSE]
    /\ currentStage = [c \in Calls |-> InitialCurrentStage]
    /\ lastStageTime = [c \in Calls |-> 0]
    /\ subscribed = [c \in Calls |-> FALSE]
    /\ importResult = [c \in Calls |-> NoResult]
    /\ ret = [c \in Calls |-> NoReturn]
    /\ wake = [c \in Calls |-> NoTimer]
    /\ pqWake = [c \in Calls |-> NoTimer]
    /\ clearAt = [c \in Calls |-> NoTimer]
    /\ delivered = 0
    /\ staleClear = {}
    /\ reuses = 0
    /\ received = [c \in Calls |-> <<>>]
    /\ shown = [c \in Calls |-> <<>>]
    /\ activeLoops = [c \in Calls |-> 0]
    /\ shownSince = 0
    /\ minDisplay = MIN_STAGE_TIME

InitOps ==
    /\ loadPc = "idle"
    /\ loadReply = [ok |-> FALSE, list |-> <<>>]
    /\ delPc = "idle"
    /\ delId = Null
    /\ delReply = "none"
    /\ delRet = FALSE
    /\ before = [sessions |-> <<>>, currentSessionId |-> Null]

\* The views at rest: nothing truncated, an empty ranking, the modal closed.
InitTruncate(c, m) ==
    /\ argContent = c
    /\ argMaxLength = m
    /\ truncated = ""
    /\ truncateDone = FALSE

InitRank(ms, limit, i) ==
    /\ members = ms
    /\ rankLimit = limit
    /\ argIndex = i
    /\ percentage = 0
    /\ percentageDone = FALSE

InitModal ==
    /\ open = FALSE
    /\ activeTab = "settings"
    /\ settingTarget = NoTarget
    /\ scrollTimers = {}
    /\ modalVersion = "current"
    /\ tabAtClose = Null

\* ---- the changelog modal before its first mount
\* localStorage as an earlier run of the app (or none) left it
StoredAgreements == {Null, "1.0"}
StoredReadVersions == {Null, "1", "v1"}
\* window.api.app.getVersion(): the versions of the app, oldest first
AppVersions == <<"1", "v2">>
Mounts == 1..MaxMounts
NoSettle == [kind |-> "none", data |-> <<>>, before |-> <<>>]

InitChangelogRefs ==
    /\ showModal = FALSE
    /\ isLoading = FALSE
    /\ loadError = Null
    /\ changelogs = <<>>
    /\ currentAppVersion = Null

InitChangelogRuns ==
    /\ live = 0
    /\ openPending = FALSE
    /\ fetchPending = 0
    /\ checkPc = [i \in Mounts |-> "unmounted"]
    /\ checkVersion = [i \in Mounts |-> Null]
    /\ checkRead = [i \in Mounts |-> Null]
    /\ checkData = [i \in Mounts |-> <<>>]
    /\ checkAgreed = [i \in Mounts |-> FALSE]
    /\ checkFetched = [i \in Mounts |-> FALSE]
    /\ checkOpened = [i \in Mounts |-> FALSE]
    /\ openedAtMount = [i \in Mounts |-> {}]
    /\ lastSettle = NoSettle

InitChangelog(agreement, read) ==
    /\ agreementVersion = agreement
    /\ readVersionStored = read
    /\ appVersion = 1
    /\ autoOpenedFor = {}
    /\ InitChangelogRefs
    /\ InitChangelogRuns

\* ---- the auto-updater right after checkUpdate(win) registered its handlers
\* buttons of the two dialogs, by index
AvailableButtons == 0..1
DownloadedButtons == 0..2

InitUpdater ==
    /\ isFirstShow = TRUE
    /\ showUpdateMessageBox = FALSE
    /\ startupPending = TRUE
    /\ checkInFlight = "none"
    /\ checksMade = 0
    /\ availableDialogs = 0
    /\ downloadedDialogs = 0
    /\ downloading = FALSE
    /\ downloadPercent = 0
    /\ installTimers = 0
    /\ isQuiting = FALSE
    /\ appQuit = FALSE
    /\ availableEvents = 0
    /\ downloadCalls = 0
    /\ installCalls = 0
    /\ availableAnswered = [b \in AvailableButtons |-> 0]
    /\ downloadedAnswered = [b \in DownloadedButtons |-> 0]
    /\ silencedChecks = {}
    /\ messagedChecks = {}

\* ---- the timeline page as mounted with no session and no members: the
\* immediate watcher has called loadMembersWithNicknameChanges, which returned
Loads == 1..MaxLoads
NoLoad == [kind |-> "none", before |-> <<>>, asked |-> <<>>, lengths |-> <<>>,
           activity |-> <<>>]

InitNickname ==
    /\ propSessionId = ""
    /\ memberActivity = <<>>
    /\ membersWithNicknameChanges = <<>>
    /\ isLoadingHistory = FALSE
    /\ historyPc = [c \in Loads |-> "idle"]
    /\ historyAsked = [c \in Loads |-> <<>>]
    /\ lastLoad = NoLoad

InitPages == InitChangelog(Null, Null) /\ InitUpdater /\ InitNickname

InitViews == InitTruncate("", 0) /\ InitRank(<<>>, 0, 0) /\ InitModal

Init == InitStore(Null) /\ InitImport /\ InitOps /\ InitPages /\ InitViews

Next ==
    \/ \E c \in Calls : StartImport(c)
    \/ \E stage \in Stages : DeliverProgress(stage)
    \/ \E c \in Calls : ProcessQueueWake(c)
    \/ \E c \in Calls, res \in ImportSettlements : ImportResolve(c, res)
    \/ \E c \in Calls, res \in ImportSettlements : ImportReject(c, res)
    \/ \E c \in Calls : PollWake(c)
    \/ \E c \in Calls : LastWaitWake(c)
    \/ \E c \in Calls : Show100WakeSuccess(c)
    \/ \E c \in Calls : Show100WakeFailure(c)
    \/ \E c \in Calls, reply \in GetSessionsReplies : ImportLoaded(c, reply)
    \/ \E c \in Calls : ClearProgress(c)
    \/ Tick

Spec == Init /\ [][Next]_vars

\* Imports made one after another for as long as the application runs: a
\* call that returned and left nothing behind but its clear timer may be
\* followed by another.
NextReimport ==
    \/ \E c \in Calls : StartImport(c)
    \/ \E c \in Calls : ImportAgain(c)
    \/ \E stage \in Stages : DeliverProgress(stage)
    \/ \E c \in Calls : ProcessQueueWake(c)
    \/ \E c \in Calls, res \in ImportSettlements : ImportResolve(c, res)
    \/ \E c \in Calls, res \in ImportSettlements : ImportReject(c, res)
    \/ \E c \in Calls : PollWake(c)
    \/ \E c \in Calls : LastWaitWake(c)
    \/ \E c \in Calls : Show100WakeSuccess(c)
    \/ \E c \in Calls : Show100WakeFailure(c)
    \/ \E c \in Calls, reply \in GetSessionsReplies : ImportLoaded(c, reply)
    \/ \E c \in Calls : ClearProgress(c)
    \/ StaleClearFires
    \/ Tick

SpecReimport == Init /\ [][NextReimport]_vars

(* ------------- store actions called on their own (SpecStore) ----------- *)
importState == <<isImporting, importProgress, importVars, envVars, histVars, viewVars>>

\* loadSessions() is called (App.onMounted): await window.chatApi.getSessions()
LoadSessionsCall ==
    /\ loadPc \in {"idle", "done"}
    /\ loadPc' = "awaiting"
    /\ UNCHANGED <<storeVars, importVars, envVars, histVars, viewVars, loadReply, delPc,
                   delId, delReply, delRet, before>>

\* getSessions settles with reply and loadSessions runs to its end.
LoadSessionsSettle(reply) ==
    /\ loadPc = "awaiting"
    /\ LET loaded == LoadSessionsBody(reply, sessions, currentSessionId)
       IN  /\ sessions' = loaded.sessions
           /\ currentSessionId' = loaded.currentSessionId
           /\ isInitialized' = loaded.isInitialized
    /\ loadPc' = "done"
    /\ loadReply' = reply
    /\ before' = [sessions |-> sessions, currentSessionId |-> currentSessionId]
    /\ UNCHANGED <<importState, delPc, delId, delReply, delRet>>

\* selectSession(id)
SelectSession(id) ==
    /\ currentSessionId' = id
    /\ UNCHANGED <<sessions, isInitialized, importState, opVars>>

\* clearSelection()
ClearSelection ==
    /\ currentSessionId' = Null
    /\ UNCHANGED <<sessions, isInitialized, importState, opVars>>

\* sessions.value.findIndex((s) => s.id === id); -1 is 0 here (sequences start at 1)
FindIndex(list, id) ==
    IF HasSession(list, id)
    THEN CHOOSE i \in 1..Len(list) :
             list[i] = id /\ \A j \in 1..(i - 1) : list[j] # id
    ELSE 0

\* sessions.value.splice(index, 1)
Splice(list, at) ==
    [i \in 1..(Len(list) - 1) |-> IF i < at THEN list[i] ELSE list[i + 1]]

\* (mutant) the session is removed and deselected whatever the backend answered
DeleteSessionIgnoresAnswer(reply, id, sess, cur) ==
    [sessions |-> IF FindIndex(sess, id) # 0 THEN Splice(sess, FindIndex(sess, id)) ELSE sess,
     currentSessionId |-> IF cur = id THEN Null ELSE cur,
     ret |-> reply = "true"]

\* The body of deleteSession(id) once window.chatApi.deleteSession has
\* answered "true" or "false", or has thrown ("throw").
DeleteSessionBody(reply, id, sess, cur) ==
    IF reply = "true"
    THEN [sessions |->
              IF FindIndex(sess, id) # 0 THEN Splice(sess, FindIndex(sess, id)) ELSE sess,
          currentSessionId |-> IF cur = id THEN Null ELSE cur,
          ret |-> TRUE]
    ELSE [sessions |-> sess, currentSessionId |-> cur, ret |-> FALSE]

DeleteReplies == {"true", "false", "throw"}

\* deleteSession(id) is called: await window.chatApi.deleteSession(id)
DeleteSessionCall(id) ==
    /\ delPc \in {"idle", "done"}
    /\ delPc' = "awaiting"
    /\ delId' = id
    /\ UNCHANGED <<storeVars, importVars, envVars, histVars, viewVars, loadPc, loadReply,
                   delReply, delRet, before>>

\* The backend answers and deleteSession runs to its end.
DeleteSessionSettle(reply) ==
    /\ delPc = "awaiting"
    /\ LET done == DeleteSessionBody(reply, delId, sessions, currentSessionId)
       IN  /\ sessions' = done.sessions
           /\ currentSessionId' = done.currentSessionId
           /\ delRet' = done.ret
    /\ delPc' = "done"
    /\ delReply' = reply
    /\ before' = [sessions |-> sessions, currentSessionId |-> currentSessionId]
    /\ UNCHANGED <<isInitialized, importState, delId, loadPc, loadReply>>

InitStoreSpec ==
    /\ \E cur \in SessionIds \cup {Null} : InitStore(cur)
    /\ InitImport
    /\ InitOps /\ InitPages
    /\ InitViews

NextStore ==
    \/ LoadSessionsCall
    \/ \E reply \in GetSessionsReplies : LoadSessionsSettle(reply)
    \/ \E id \in SessionIds : SelectSession(id)
    \/ ClearSelection
    \/ \E id \in SessionIds : DeleteSessionCall(id)
    \/ \E reply \in DeleteReplies : DeleteSessionSettle(reply)

SpecStore == InitStoreSpec /\ [][NextStore]_vars

(* --------------------------- truncateContent --------------------------- *)
Max(a, b) == IF a > b THEN a ELSE b

Alphabet == {"a", "b"}

\* The strings of at most n characters.
RECURSIVE Strings(_)
Strings(n) ==
    IF n = 0 THEN {""}
    ELSE LET shorter == Strings(n - 1)
         IN  shorter \cup {s \o ch : s \in {t \in shorter : Len(t) = n - 1}, ch \in Alphabet}

\* String.prototype.slice(0, end): a negative end counts from the end of the string.
Slice0(str, end) ==
    LET to == IF end < 0 THEN Max(Len(str) + end, 0) ELSE Min(end, Len(str))
    IN  SubSeq(str, 1, to)

\* (mutant) content.slice(0, maxLength + 1) + '...': one character too many
truncateContentOffByOne(str, maxLen) ==
    IF Len(str) <= maxLen THEN str ELSE Slice0(str, maxLen + 1) \o "..."

\* truncateContent(content, maxLength)
truncateContent(str, maxLen) ==
    IF Len(str) <= maxLen THEN str ELSE Slice0(str, maxLen) \o "..."

\* function truncateContent(content: string, maxLength = 30)
DEFAULT_MAX_LENGTH == 30

\* {{ truncateContent(phrase.content, n) }}: a call with an explicit maxLength.
TruncateContent ==
    /\ ~truncateDone
    /\ truncated' = truncateContent(argContent, argMaxLength)
    /\ truncateDone' = TRUE
    /\ UNCHANGED <<argContent, argMaxLength, storeVars, importVars, envVars, histVars,
                   opVars, rankVars, modalVars, pageVars>>

\* {{ truncateContent(item.content) }}: maxLength takes its default.
TruncateContentDefault ==
    /\ ~truncateDone
    /\ argMaxLength' = DEFAULT_MAX_LENGTH
    /\ truncated' = truncateContent(argContent, DEFAULT_MAX_LENGTH)
    /\ truncateDone' = TRUE
    /\ UNCHANGED <<argContent, storeVars, importVars, envVars, histVars,
                   opVars, rankVars, modalVars, pageVars>>

\* The template renders the next item.
TruncateNext(str, maxLen) ==
    /\ truncateDone
    /\ argContent' = str
    /\ argMaxLength' = maxLen
    /\ truncated' = ""
    /\ truncateDone' = FALSE
    /\ UNCHANGED <<storeVars, importVars, envVars, histVars, opVars, rankVars, modalVars, pageVars>>

MaxLengths == (0 - MaxContentLen)..(MaxContentLen + 1)

InitTruncateSpec ==
    /\ \E str \in Strings(MaxContentLen), maxLen \in MaxLengths : InitTruncate(str, maxLen)
    /\ InitStore(Null) /\ InitImport /\ InitOps /\ InitPages
    /\ InitRank(<<>>, 0, 0) /\ InitModal

NextTruncate ==
    \/ TruncateContent
    \/ TruncateContentDefault
    \/ \E str \in Strings(MaxContentLen), maxLen \in MaxLengths : TruncateNext(str, maxLen)

SpecTruncate == InitTruncateSpec /\ [][NextTruncate]_vars

(* ------------------- ranking list: getRelativePercentage --------------- *)
\* The lists of at most n values in 0..MaxValue (RankItem.value of each member).
MemberLists(n) == UNION {[1..k -> 0..MaxValue] : k \in 0..n}

\* props.rankLimit > 0 ? props.members.slice(0, props.rankLimit) : props.members
displayMembers ==
    IF rankLimit > 0 THEN SubSeq(members, 1, Min(rankLimit, Len(members))) ELSE members

\* Math.round((num / den) * 100) for num >= 0, den > 0: halves round up
RoundPercent(num, den) == (200 * num + den) \div (2 * den)

\* (mutant) the reference value is taken from the last displayed member
getRelativePercentageOfLast(idx) ==
    IF Len(displayMembers) = 0 THEN 0
    ELSE LET maxValue == displayMembers[Len(displayMembers)]
         IN  IF maxValue = 0 THEN 0
             ELSE RoundPercent(displayMembers[idx + 1], maxValue)

\* getRelativePercentage(index); index counts from 0
getRelativePercentage(idx) ==
    IF Len(displayMembers) = 0 THEN 0
    ELSE LET maxValue == displayMembers[1]
         IN  IF maxValue = 0 THEN 0
             ELSE RoundPercent(displayMembers[idx + 1], maxValue)

\* :style="{ width: `${getRelativePercentage(index)}%` }" for one displayed member
ComputePercentage ==
    /\ ~percentageDone
    /\ percentage' = getRelativePercentage(argIndex)
    /\ percentageDone' = TRUE
    /\ UNCHANGED <<members, rankLimit, argIndex, storeVars, importVars, envVars,
                   histVars, opVars, truncVars, modalVars, pageVars>>

\* The indexes v-for passes: those of the displayed members.
DisplayedIndex(ms, limit, i) ==
    LET shownCount == IF limit > 0 THEN Min(limit, Len(ms)) ELSE Len(ms)
    IN  i \in 0..(shownCount - 1)

\* The parent passes new props, or v-for moves to another member.
RankNext(ms, limit, i) ==
    /\ percentageDone
    /\ DisplayedIndex(ms, limit, i)
    /\ members' = ms
    /\ rankLimit' = limit
    /\ argIndex' = i
    /\ percentage' = 0
    /\ percentageDone' = FALSE
    /\ UNCHANGED <<storeVars, importVars, envVars, histVars, opVars, truncVars, modalVars, pageVars>>

InitRankSpec ==
    /\ \E ms \in MemberLists(MaxMembers), limit \in 0..MaxMembers, i \in 0..MaxMembers :
           DisplayedIndex(ms, limit, i) /\ InitRank(ms, limit, i)
    /\ InitStore(Null) /\ InitImport /\ InitOps /\ InitPages
    /\ InitTruncate("", 0) /\ InitModal

NextRank ==
    \/ ComputePercentage
    \/ \E ms \in MemberLists(MaxMembers), limit \in 0..MaxMembers, i \in 0..MaxMembers :
           RankNext(ms, limit, i)

SpecRank == InitRankSpec /\ [][NextRank]_vars

(* ----------------------------- settings modal -------------------------- *)
\* const tabs = computed(() => [...]): the ids of the tabs SubTabs offers
TabIds == {"settings", "ai", "storage", "about"}

\* The panels of the template and the activeTab each v-show tests for.
PanelIds == {"settings", "ai", "storage", "about"}

\* <div v-show="activeTab === p">
PanelVisible(p) == activeTab = p

\* layoutStore.settingTarget: a tab and an optional section ('' when absent).
SettingTargets == {[tab |-> t, section |-> sec] : t \in TabIds, sec \in {"", "general"}}

\* (mutant) the default tab of the previous version of the modal
LegacyDefaultTab == "ai-model"

\* activeTab.value = 'settings': the tab an open without target shows
DefaultTab == "settings"

\* layoutStore sets the target the next open jumps to.
SetSettingTarget(target) ==
    /\ modalVersion = "current"
    /\ settingTarget' = target
    /\ UNCHANGED <<open, activeTab, scrollTimers, modalVersion, tabAtClose, storeVars, importVars, envVars,
                   histVars, opVars, truncVars, rankVars, pageVars>>

\* props.open becomes true and the watcher runs.
OpenModal ==
    /\ modalVersion = "current"
    /\ ~open
    /\ open' = TRUE
    /\ IF settingTarget # NoTarget
       THEN /\ activeTab' = settingTarget.tab
            /\ scrollTimers' = IF settingTarget.section # ""
                               THEN scrollTimers \cup {settingTarget}
                               ELSE scrollTimers
       ELSE /\ activeTab' = DefaultTab
            /\ UNCHANGED scrollTimers
    /\ UNCHANGED <<settingTarget, modalVersion, tabAtClose, storeVars, importVars,
                   envVars, histVars, opVars, truncVars, rankVars, pageVars>>

\* closeModal(), or UModal emits update:open false: props.open becomes false,
\* and the watcher (and closeModal itself) clear the target.
CloseModal ==
    /\ modalVersion = "current"
    /\ open
    /\ open' = FALSE
    /\ settingTarget' = NoTarget
    /\ tabAtClose' = activeTab
    /\ UNCHANGED <<activeTab, scrollTimers, modalVersion, storeVars, importVars, envVars, histVars,
                   opVars, truncVars, rankVars, pageVars>>

\* SubTabs v-model: the user picks a tab of the open modal.
SelectTab(tab) ==
    /\ modalVersion = "current"
    /\ open
    /\ activeTab' = tab
    /\ UNCHANGED <<open, settingTarget, scrollTimers, modalVersion, tabAtClose, storeVars, importVars, envVars,
                   histVars, opVars, truncVars, rankVars, pageVars>>

\* setTimeout(() => tabRef?.scrollToSection?.(target.section), 100) fires.
ScrollToSection(target) ==
    /\ target \in scrollTimers
    /\ scrollTimers' = scrollTimers \ {target}
    /\ UNCHANGED <<open, activeTab, settingTarget, modalVersion, tabAtClose, storeVars, importVars, envVars,
                   histVars, opVars, truncVars, rankVars, pageVars>>

InitModalSpec ==
    /\ InitModal
    /\ InitStore(Null) /\ InitImport /\ InitOps /\ InitPages
    /\ InitTruncate("", 0) /\ InitRank(<<>>, 0, 0)

NextModal ==
    \/ \E target \in SettingTargets : SetSettingTarget(target)
    \/ OpenModal
    \/ CloseModal
    \/ \E tab \in TabIds : SelectTab(tab)
    \/ \E target \in SettingTargets : ScrollToSection(target)

SpecModal == InitModalSpec /\ [][NextModal]_vars

(* ------------------ earlier versions of the settings modal ------------- *)
\* The modal exists in three versions: the first one (tabs settings/help), an
\* intermediate one (four tabs, AI model first) and the current one above.
ModalVersions == {"first", "intermediate", "current"}

\* const tabs = [...] of the first and of the intermediate version
FirstTabIds == {"settings", "help"}
IntermediateTabIds == {"ai-model", "ai-chat", "settings", "help"}

\* activeTab.value = 'settings' in the first version's watcher
FirstDefaultTab == "settings"
\* activeTab.value = 'ai-model' in the intermediate version's watcher
IntermediateDefaultTab == "ai-model"

\* everything but the modal's own open and activeTab
modalFrame == <<settingTarget, scrollTimers, modalVersion, storeVars, importVars,
                envVars, histVars, opVars, truncVars, rankVars, pageVars>>

\* first version: watch(() => props.open, (newVal) => { if (newVal) ... })
OpenModalFirst ==
    /\ modalVersion = "first"
    /\ ~open
    /\ open' = TRUE
    /\ activeTab' = FirstDefaultTab
    /\ UNCHANGED <<tabAtClose, modalFrame>>

\* (mutant) a watcher that leaves the tab of the last visit in place
OpenModalKeepsTab ==
    /\ modalVersion = "intermediate"
    /\ ~open
    /\ open' = TRUE
    /\ UNCHANGED <<activeTab, tabAtClose, modalFrame>>

\* intermediate version: the watcher resets the tab (and refreshes the AI
\* configuration, which is not part of the modal's own state)
OpenModalIntermediate ==
    /\ modalVersion = "intermediate"
    /\ ~open
    /\ open' = TRUE
    /\ activeTab' = IntermediateDefaultTab
    /\ UNCHANGED <<tabAtClose, modalFrame>>

\* closeModal() / UModal's update:open of the first version: the watcher does
\* nothing when open becomes false
CloseModalFirst ==
    /\ modalVersion = "first"
    /\ open
    /\ open' = FALSE
    /\ tabAtClose' = activeTab
    /\ UNCHANGED <<activeTab, modalFrame>>

CloseModalIntermediate ==
    /\ modalVersion = "intermediate"
    /\ open
    /\ open' = FALSE
    /\ tabAtClose' = activeTab
    /\ UNCHANGED <<activeTab, modalFrame>>

\* @click="activeTab = tab.id" on a tab button
SelectTabFirst(tab) ==
    /\ modalVersion = "first"
    /\ open
    /\ activeTab' = tab
    /\ UNCHANGED <<open, tabAtClose, modalFrame>>

SelectTabIntermediate(tab) ==
    /\ modalVersion = "intermediate"
    /\ open
    /\ activeTab' = tab
    /\ UNCHANGED <<open, tabAtClose, modalFrame>>

\* const activeTab = ref(...) of each version
InitialTab(version) ==
    CASE version = "first" -> "settings"
      [] version = "intermediate" -> "ai-model"
      [] OTHER -> "settings"

InitModalVersions ==
    /\ open = FALSE
    /\ modalVersion \in ModalVersions
    /\ activeTab = InitialTab(modalVersion)
    /\ settingTarget = NoTarget
    /\ scrollTimers = {}
    /\ tabAtClose = Null
    /\ InitStore(Null) /\ InitImport /\ InitOps /\ InitPages
    /\ InitTruncate("", 0) /\ InitRank(<<>>, 0, 0)

NextModalVersions ==
    \/ \E target \in SettingTargets : SetSettingTarget(target)
    \/ OpenModal
    \/ CloseModal
    \/ \E tab \in TabIds : SelectTab(tab)
    \/ \E target \in SettingTargets : ScrollToSection(target)
    \/ OpenModalFirst
    \/ CloseModalFirst
    \/ \E tab \in FirstTabIds : SelectTabFirst(tab)
    \/ OpenModalIntermediate
    \/ CloseModalIntermediate
    \/ \E tab \in IntermediateTabIds : SelectTabIntermediate(tab)

SpecModalVersions == InitModalVersions /\ [][NextModalVersions]_vars

(* ----------------------------- changelog modal ------------------------- *)
\* everything outside the changelog modal
changelogFrame == <<storeVars, importVars, envVars, histVars, opVars, truncVars,
                    rankVars, modalVars, updaterVars, nicknameVars>>

RECURSIVE TrimStart(_)
TrimStart(str) ==
    IF Len(str) > 0 /\ SubSeq(str, 1, 1) = " "
    THEN TrimStart(SubSeq(str, 2, Len(str)))
    ELSE str

RECURSIVE TrimEnd(_)
TrimEnd(str) ==
    IF Len(str) > 0 /\ SubSeq(str, Len(str), Len(str)) = " "
    THEN TrimEnd(SubSeq(str, 1, Len(str) - 1))
    ELSE str

\* String.prototype.trim
Trim(str) == TrimEnd(TrimStart(str))

\* str.replace(/^v/i, '')
StripLeadingV(str) ==
    IF Len(str) > 0 /\ SubSeq(str, 1, 1) \in {"v", "V"}
    THEN SubSeq(str, 2, Len(str))
    ELSE str

\* version ? version.trim().replace(/^v/i, '') : null
normalizeVersion(version) ==
    IF Truthy(version) THEN StripLeadingV(Trim(version)) ELSE Null

\* result.data of fetchRemoteConfig: the versions of the changelog items,
\* newest first (an item may lack its version)
ChangelogData == {<<>>, <<"v1">>, <<"2", "1">>, <<"", "2">>}

\* how window.api.app.fetchRemoteConfig settles: with data, with success but
\* no data, with success false, or by rejecting
FetchResults ==
    {[kind |-> "ok", data |-> d] : d \in ChangelogData}
        \cup {[kind |-> k, data |-> <<>>] : k \in {"nodata", "fail", "threw"}}

\* t('home.changelog.loadError')
LOAD_ERROR == "load error"

\* the first, synchronous part of fetchChangelogs()
FetchChangelogsCall ==
    /\ fetchPending < MaxFetches
    /\ isLoading' = TRUE
    /\ loadError' = Null
    /\ fetchPending' = fetchPending + 1
    /\ lastSettle' = NoSettle

\* (mutant) a check that does not look at the agreement
CheckStartsAlways(acceptedAgreement) == TRUE

\* step 0 of checkNewVersion: if (!acceptedAgreement) return
CheckStarts(acceptedAgreement) == Truthy(acceptedAgreement)

\* onMounted(() => checkNewVersion()) of a fresh instance of the component;
\* the instance it replaces is unmounted, its refs are no longer rendered and
\* its pending fetchChangelogs calls no longer show anywhere.  checkNewVersion
\* runs up to its first await (or returns when the agreement is missing).
MountChangelog ==
    /\ live < MaxMounts
    /\ live' = live + 1
    /\ showModal' = FALSE
    /\ isLoading' = FALSE
    /\ loadError' = Null
    /\ changelogs' = <<>>
    /\ currentAppVersion' = Null
    /\ openPending' = FALSE
    /\ fetchPending' = 0
    /\ lastSettle' = NoSettle
    /\ checkAgreed' = [checkAgreed EXCEPT ![live + 1] = Truthy(agreementVersion)]
    /\ checkPc' = [checkPc EXCEPT ![live + 1] =
                      IF CheckStarts(agreementVersion) THEN "getVersion" ELSE "returned"]
    /\ openedAtMount' = [openedAtMount EXCEPT ![live + 1] = autoOpenedFor]
    /\ UNCHANGED <<agreementVersion, readVersionStored, appVersion, checkVersion,
                   checkRead, checkData, checkFetched, checkOpened, autoOpenedFor,
                   changelogFrame>>

\* checkNewVersion after await window.api.app.getVersion(): steps 1 to 3 and
\* the start of the remote fetch of step 4
CheckGotVersion(i, ok) ==
    /\ checkPc[i] = "getVersion"
    /\ LET currentVersion == normalizeVersion(AppVersions[appVersion])
           readVersion == normalizeVersion(readVersionStored)
           goesOn == /\ ok
                     /\ Truthy(currentVersion)
                     /\ ~(Truthy(readVersion) /\ readVersion = currentVersion)
       IN /\ checkVersion' = [checkVersion EXCEPT ![i] = IF ok THEN currentVersion ELSE Null]
          /\ checkRead' = [checkRead EXCEPT ![i] =
                              IF ok /\ Truthy(currentVersion) THEN readVersion ELSE Null]
          /\ checkPc' = [checkPc EXCEPT ![i] = IF goesOn THEN "fetching" ELSE "returned"]
          /\ checkFetched' = [checkFetched EXCEPT ![i] = goesOn]
    /\ UNCHANGED <<agreementVersion, readVersionStored, appVersion, live, showModal,
                   isLoading, loadError, changelogs, currentAppVersion, openPending,
                   fetchPending, checkAgreed, checkOpened, autoOpenedFor, checkData,
                   openedAtMount, lastSettle, changelogFrame>>

\* data.some((log) => normalizeVersion(log.version) === currentVersion)
CurrentVersionExists(data, currentVersion) ==
    \E k \in 1..Len(data) : normalizeVersion(data[k]) = currentVersion

\* steps 4 and 5 of checkNewVersion: is the modal to be shown for this result
ShowsChangelog(res, currentVersion) ==
    /\ res.kind = "ok"
    /\ Len(res.data) > 0 /\ Truthy(res.data[1])
    /\ CurrentVersionExists(res.data, currentVersion)

\* checkNewVersion after await fetchRemoteConfig: returns, or arms the timer
CheckGotChangelog(i, res) ==
    /\ checkPc[i] = "fetching"
    /\ checkPc' = [checkPc EXCEPT ![i] =
                      IF ShowsChangelog(res, checkVersion[i]) THEN "timer" ELSE "returned"]
    /\ checkData' = [checkData EXCEPT ![i] = res.data]
    /\ UNCHANGED <<agreementVersion, readVersionStored, appVersion, live, showModal,
                   isLoading, loadError, changelogs, currentAppVersion, openPending,
                   fetchPending, checkAgreed, checkFetched, checkOpened, autoOpenedFor,
                   checkVersion, checkRead, openedAtMount, lastSettle, changelogFrame>>

\* (mutant) a timer callback that opens the modal without marking the version
MarkNothingAsRead(stored, version) == stored

\* markVersionAsRead(version): localStorage.setItem(CHANGELOG_READ_KEY, version)
markVersionAsRead(stored, version) == version

\* setTimeout(() => { openWithData(data, currentVersion); markVersionAsRead(..) }, 500)
\* fires; openWithData shows only when the instance is still the mounted one
CheckTimerFires(i) ==
    /\ checkPc[i] = "timer"
    /\ checkPc' = [checkPc EXCEPT ![i] = "returned"]
    /\ checkOpened' = [checkOpened EXCEPT ![i] = TRUE]
    /\ IF i = live
       THEN /\ changelogs' = checkData[i]
            /\ currentAppVersion' = IF Truthy(checkVersion[i]) THEN checkVersion[i] ELSE Null
            /\ showModal' = TRUE
            /\ lastSettle' = NoSettle
            /\ autoOpenedFor' = autoOpenedFor \cup {checkVersion[i]}
       ELSE UNCHANGED <<changelogs, currentAppVersion, showModal, lastSettle, autoOpenedFor>>
    /\ readVersionStored' = markVersionAsRead(readVersionStored, checkVersion[i])
    /\ UNCHANGED <<agreementVersion, appVersion, live, isLoading, loadError, openPending,
                   fetchPending, checkAgreed, checkFetched, checkVersion, checkRead,
                   checkData, openedAtMount, changelogFrame>>

\* open(): the parent's button; runs up to await getVersion()
ManualOpenCall ==
    /\ live # 0
    /\ ~openPending
    /\ openPending' = TRUE
    /\ UNCHANGED <<agreementVersion, readVersionStored, appVersion, live, showModal,
                   isLoading, loadError, changelogs, currentAppVersion, fetchPending,
                   checkPc, checkVersion, checkRead, checkData, checkAgreed, checkFetched,
                   checkOpened, autoOpenedFor, openedAtMount, lastSettle, changelogFrame>>

\* open() after getVersion settled (ok) or rejected: shows the modal and
\* fetches when there are no changelogs yet
ManualOpenResume(ok) ==
    /\ openPending
    /\ openPending' = FALSE
    /\ currentAppVersion' = IF ok THEN normalizeVersion(AppVersions[appVersion]) ELSE Null
    /\ showModal' = TRUE
    /\ IF Len(changelogs) = 0
       THEN FetchChangelogsCall
       ELSE UNCHANGED <<isLoading, loadError, fetchPending, lastSettle>>
    /\ UNCHANGED <<agreementVersion, readVersionStored, appVersion, live, changelogs,
                   checkPc, checkVersion, checkRead, checkData, checkAgreed, checkFetched,
                   checkOpened, autoOpenedFor, openedAtMount, changelogFrame>>

\* the retry button of the error state: @click="fetchChangelogs"
RetryFetch ==
    /\ showModal /\ ~isLoading /\ loadError # Null
    /\ FetchChangelogsCall
    /\ UNCHANGED <<agreementVersion, readVersionStored, appVersion, live, showModal,
                   changelogs, currentAppVersion, openPending,
                   checkPc, checkVersion, checkRead, checkData, checkAgreed, checkFetched,
                   checkOpened, autoOpenedFor, openedAtMount, changelogFrame>>

\* watch(locale, ...): the language changes while the modal shows changelogs
LocaleChange ==
    /\ showModal /\ Len(changelogs) > 0
    /\ FetchChangelogsCall
    /\ UNCHANGED <<agreementVersion, readVersionStored, appVersion, live, showModal,
                   changelogs, currentAppVersion, openPending,
                   checkPc, checkVersion, checkRead, checkData, checkAgreed, checkFetched,
                   checkOpened, autoOpenedFor, openedAtMount, changelogFrame>>

\* fetchChangelogs after its await: try, catch and finally
FetchChangelogsSettle(res) ==
    /\ fetchPending > 0
    /\ fetchPending' = fetchPending - 1
    /\ IF res.kind = "ok"
       THEN changelogs' = res.data /\ UNCHANGED loadError
       ELSE loadError' = LOAD_ERROR /\ UNCHANGED changelogs
    /\ isLoading' = FALSE
    /\ lastSettle' = [kind |-> IF res.kind = "ok" THEN "ok" ELSE "failed",
                      data |-> res.data, before |-> changelogs]
    /\ UNCHANGED <<agreementVersion, readVersionStored, appVersion, live, showModal,
                   currentAppVersion, openPending,
                   checkPc, checkVersion, checkRead, checkData, checkAgreed, checkFetched,
                   checkOpened, autoOpenedFor, openedAtMount, changelogFrame>>

\* close(), or UModal's update:open
CloseChangelog ==
    /\ showModal
    /\ showModal' = FALSE
    /\ UNCHANGED <<agreementVersion, readVersionStored, appVersion, live,
                   isLoading, loadError, changelogs, currentAppVersion, openPending,
                   fetchPending, checkPc, checkVersion, checkRead, checkData, checkAgreed,
                   checkFetched, checkOpened, autoOpenedFor, openedAtMount, lastSettle,
                   changelogFrame>>

\* the user accepts the agreement: the agreement dialog stores its version
AcceptAgreement ==
    /\ agreementVersion = Null
    /\ agreementVersion' = "1.0"
    /\ UNCHANGED <<readVersionStored, appVersion, live, showModal,
                   isLoading, loadError, changelogs, currentAppVersion, openPending,
                   fetchPending, checkPc, checkVersion, checkRead, checkData, checkAgreed,
                   checkFetched, checkOpened, autoOpenedFor, openedAtMount, lastSettle,
                   changelogFrame>>

\* the app is quit and started again, possibly as its next version: every
\* instance, pending call and timer of the old process is gone, localStorage
\* stays
RestartApp(version) ==
    /\ live # 0
    /\ version \in {appVersion, appVersion + 1} /\ version <= Len(AppVersions)
    /\ appVersion' = version
    /\ live' = 0
    /\ showModal' = FALSE
    /\ isLoading' = FALSE
    /\ loadError' = Null
    /\ changelogs' = <<>>
    /\ currentAppVersion' = Null
    /\ openPending' = FALSE
    /\ fetchPending' = 0
    /\ checkPc' = [i \in Mounts |-> "unmounted"]
    /\ checkVersion' = [i \in Mounts |-> Null]
    /\ checkRead' = [i \in Mounts |-> Null]
    /\ checkData' = [i \in Mounts |-> <<>>]
    /\ checkAgreed' = [i \in Mounts |-> FALSE]
    /\ checkFetched' = [i \in Mounts |-> FALSE]
    /\ checkOpened' = [i \in Mounts |-> FALSE]
    /\ openedAtMount' = [i \in Mounts |-> {}]
    /\ lastSettle' = NoSettle
    /\ UNCHANGED <<agreementVersion, readVersionStored, autoOpenedFor, changelogFrame>>

InitChangelogSpec ==
    /\ \E agreement \in StoredAgreements, read \in StoredReadVersions :
           InitChangelog(agreement, read)
    /\ InitUpdater /\ InitNickname
    /\ InitStore(Null) /\ InitImport /\ InitOps
    /\ InitTruncate("", 0) /\ InitRank(<<>>, 0, 0) /\ InitModal

NextChangelog ==
    \/ MountChangelog
    \/ \E i \in Mounts, ok \in BOOLEAN : CheckGotVersion(i, ok)
    \/ \E i \in Mounts, res \in FetchResults : CheckGotChangelog(i, res)
    \/ \E i \in Mounts : CheckTimerFires(i)
    \/ ManualOpenCall
    \/ \E ok \in BOOLEAN : ManualOpenResume(ok)
    \/ RetryFetch
    \/ LocaleChange
    \/ \E res \in FetchResults : FetchChangelogsSettle(res)
    \/ CloseChangelog
    \/ AcceptAgreement
    \/ \E version \in 1..Len(AppVersions) : RestartApp(version)

SpecChangelog == InitChangelogSpec /\ [][NextChangelog]_vars

\* checkNewVersion on its own: mounts, restarts and the steps of the checks,
\* without the calls of open() and fetchChangelogs(), which touch neither
\* localStorage nor the checks
NextChangelogCheck ==
    \/ MountChangelog
    \/ \E i \in Mounts, ok \in BOOLEAN : CheckGotVersion(i, ok)
    \/ \E i \in Mounts, res \in FetchResults : CheckGotChangelog(i, res)
    \/ \E i \in Mounts : CheckTimerFires(i)
    \/ CloseChangelog
    \/ AcceptAgreement
    \/ \E version \in 1..Len(AppVersions) : RestartApp(version)

SpecChangelogCheck == InitChangelogSpec /\ [][NextChangelogCheck]_vars

(* ------------------------------ auto-updater --------------------------- *)
\* everything outside the auto-updater
updaterFrame == <<storeVars, importVars, envVars, histVars, opVars, truncVars,
                  rankVars, modalVars, changelogVars, nicknameVars>>

\* setTimeout(() => autoUpdater.checkForUpdates()..., 3000): the check made
\* when the client opens
StartupCheck ==
    /\ ~appQuit
    /\ startupPending
    /\ checksMade < MaxChecks
    /\ startupPending' = FALSE
    /\ checkInFlight' = "startup"
    /\ checksMade' = checksMade + 1
    /\ UNCHANGED <<isFirstShow, showUpdateMessageBox, availableDialogs, downloadedDialogs,
                   downloading, downloadPercent, installTimers, isQuiting, appQuit,
                   availableEvents, downloadCalls, installCalls, availableAnswered,
                   downloadedAnswered, silencedChecks, messagedChecks, updaterFrame>>

\* a later autoUpdater.checkForUpdates(), asked for by the user
ManualCheck ==
    /\ ~appQuit
    /\ ~startupPending
    /\ checkInFlight = "none"
    /\ checksMade < MaxChecks
    /\ checkInFlight' = "manual"
    /\ checksMade' = checksMade + 1
    /\ UNCHANGED <<isFirstShow, showUpdateMessageBox, startupPending, availableDialogs,
                   downloadedDialogs, downloading, downloadPercent, installTimers,
                   isQuiting, appQuit, availableEvents, downloadCalls, installCalls,
                   availableAnswered, downloadedAnswered, silencedChecks, messagedChecks,
                   updaterFrame>>

\* (mutant) a handler that shows the dialog for every event
OnUpdateAvailableAlways ==
    /\ ~appQuit
    /\ checkInFlight # "none"
    /\ checkInFlight' = "none"
    /\ availableEvents' = availableEvents + 1
    /\ showUpdateMessageBox' = TRUE
    /\ availableDialogs' = availableDialogs + 1
    /\ UNCHANGED <<isFirstShow, startupPending, checksMade, downloadedDialogs, downloading,
                   downloadPercent, installTimers, isQuiting, appQuit, downloadCalls,
                   installCalls, availableAnswered, downloadedAnswered, silencedChecks,
                   messagedChecks, updaterFrame>>

\* autoUpdater.on('update-available', ...): the check found a new version
OnUpdateAvailable ==
    /\ ~appQuit
    /\ checkInFlight # "none"
    /\ checkInFlight' = "none"
    /\ availableEvents' = availableEvents + 1
    /\ IF showUpdateMessageBox
       THEN UNCHANGED <<showUpdateMessageBox, availableDialogs>>
       ELSE /\ showUpdateMessageBox' = TRUE
            /\ availableDialogs' = availableDialogs + 1
    /\ UNCHANGED <<isFirstShow, startupPending, checksMade, downloadedDialogs, downloading,
                   downloadPercent, installTimers, isQuiting, appQuit, downloadCalls,
                   installCalls, availableAnswered, downloadedAnswered, silencedChecks,
                   messagedChecks, updaterFrame>>

\* if (result.response === 0) of the new-version dialog
DownloadChosen(response) == response = 0

\* .then((result) => ...) of the new-version dialog: the user pressed a button
AnswerAvailableDialog(response) ==
    /\ ~appQuit
    /\ availableDialogs > 0
    /\ availableDialogs' = availableDialogs - 1
    /\ showUpdateMessageBox' = FALSE
    /\ availableAnswered' = [availableAnswered EXCEPT ![response] = @ + 1]
    /\ IF DownloadChosen(response)
       THEN /\ downloadCalls' = downloadCalls + 1
            /\ downloading' = TRUE
            /\ downloadPercent' = 0
       ELSE UNCHANGED <<downloadCalls, downloading, downloadPercent>>
    /\ UNCHANGED <<isFirstShow, startupPending, checkInFlight, checksMade,
                   downloadedDialogs, installTimers, isQuiting, appQuit, availableEvents,
                   installCalls, downloadedAnswered, silencedChecks, messagedChecks,
                   updaterFrame>>

\* autoUpdater.on('download-progress', ...): the percentage goes to the window
OnDownloadProgress(percent) ==
    /\ ~appQuit
    /\ downloading
    /\ percent > downloadPercent
    /\ downloadPercent' = percent
    /\ UNCHANGED <<isFirstShow, showUpdateMessageBox, startupPending, checkInFlight,
                   checksMade, availableDialogs, downloadedDialogs, downloading,
                   installTimers, isQuiting, appQuit, availableEvents, downloadCalls,
                   installCalls, availableAnswered, downloadedAnswered, silencedChecks,
                   messagedChecks, updaterFrame>>

\* autoUpdater.on('update-downloaded', ...): the install dialog is shown
OnUpdateDownloaded ==
    /\ ~appQuit
    /\ downloading
    /\ downloading' = FALSE
    /\ downloadedDialogs' = downloadedDialogs + 1
    /\ UNCHANGED <<isFirstShow, showUpdateMessageBox, startupPending, checkInFlight,
                   checksMade, availableDialogs, downloadPercent, installTimers, isQuiting,
                   appQuit, availableEvents, downloadCalls, installCalls,
                   availableAnswered, downloadedAnswered, silencedChecks, messagedChecks,
                   updaterFrame>>

\* (mutant) a choice that installs unless the dialog was dismissed
InstallChosenUnlessDismissed(response) == response # 2

\* if (result.response === 0) of the install dialog
InstallChosen(response) == response = 0

\* .then((result) => ...) of the install dialog
AnswerDownloadedDialog(response) ==
    /\ ~appQuit
    /\ downloadedDialogs > 0
    /\ downloadedDialogs' = downloadedDialogs - 1
    /\ downloadedAnswered' = [downloadedAnswered EXCEPT ![response] = @ + 1]
    /\ IF InstallChosen(response)
       THEN /\ isQuiting' = TRUE
            /\ installTimers' = installTimers + 1
       ELSE UNCHANGED <<isQuiting, installTimers>>
    /\ UNCHANGED <<isFirstShow, showUpdateMessageBox, startupPending, checkInFlight,
                   checksMade, availableDialogs, downloading, downloadPercent, appQuit,
                   availableEvents, downloadCalls, installCalls, availableAnswered,
                   silencedChecks, messagedChecks, updaterFrame>>

\* setTimeout(() => setImmediate(() => autoUpdater.quitAndInstall()), 100)
\* fires: the app quits
QuitAndInstall ==
    /\ ~appQuit
    /\ installTimers > 0
    /\ installTimers' = installTimers - 1
    /\ installCalls' = installCalls + 1
    /\ appQuit' = TRUE
    /\ UNCHANGED <<isFirstShow, showUpdateMessageBox, startupPending, checkInFlight,
                   checksMade, availableDialogs, downloadedDialogs, downloading,
                   downloadPercent, isQuiting, availableEvents, downloadCalls,
                   availableAnswered, downloadedAnswered, silencedChecks, messagedChecks,
                   updaterFrame>>

\* autoUpdater.on('update-not-available', ...): the first such event only
\* clears isFirstShow, every later one sends the message to the window
OnUpdateNotAvailable ==
    /\ ~appQuit
    /\ checkInFlight # "none"
    /\ checkInFlight' = "none"
    /\ IF isFirstShow
       THEN /\ isFirstShow' = FALSE
            /\ silencedChecks' = silencedChecks \cup {checkInFlight}
            /\ UNCHANGED messagedChecks
       ELSE /\ messagedChecks' = messagedChecks \cup {checkInFlight}
            /\ UNCHANGED <<isFirstShow, silencedChecks>>
    /\ UNCHANGED <<showUpdateMessageBox, startupPending, checksMade, availableDialogs,
                   downloadedDialogs, downloading, downloadPercent, installTimers,
                   isQuiting, appQuit, availableEvents, downloadCalls, installCalls,
                   availableAnswered, downloadedAnswered, updaterFrame>>

\* autoUpdater.on('error', ...): logs and shows an error box; a check or a
\* download in progress has ended
OnUpdaterError ==
    /\ ~appQuit
    /\ checkInFlight # "none" \/ downloading
    /\ checkInFlight' = "none"
    /\ downloading' = FALSE
    /\ UNCHANGED <<isFirstShow, showUpdateMessageBox, startupPending, checksMade,
                   availableDialogs, downloadedDialogs, downloadPercent, installTimers,
                   isQuiting, appQuit, availableEvents, downloadCalls, installCalls,
                   availableAnswered, downloadedAnswered, silencedChecks, messagedChecks,
                   updaterFrame>>

InitUpdaterSpec ==
    /\ InitUpdater
    /\ InitChangelog(Null, Null) /\ InitNickname
    /\ InitStore(Null) /\ InitImport /\ InitOps
    /\ InitTruncate("", 0) /\ InitRank(<<>>, 0, 0) /\ InitModal

NextUpdater ==
    \/ StartupCheck
    \/ ManualCheck
    \/ OnUpdateAvailable
    \/ \E response \in AvailableButtons : AnswerAvailableDialog(response)
    \/ \E percent \in {50, 100} : OnDownloadProgress(percent)
    \/ OnUpdateDownloaded
    \/ \E response \in DownloadedButtons : AnswerDownloadedDialog(response)
    \/ QuitAndInstall
    \/ OnUpdateNotAvailable
    \/ OnUpdaterError

SpecUpdater == InitUpdaterSpec /\ [][NextUpdater]_vars

(* ------------------- timeline page: nickname changes ------------------- *)
\* everything outside the timeline page
nicknameFrame == <<storeVars, importVars, envVars, histVars, opVars, truncVars,
                   rankVars, modalVars, changelogVars, updaterVars>>

\* member.memberId of the members of the session
MemberIds == {1, 2}
\* props.sessionId
PropSessionIds == {"", "s1", "s2"}
\* props.memberActivity: a list of distinct members (name stands with the id)
MemberActivities ==
    {ms \in UNION {[1..n -> MemberIds] : n \in 0..2} :
        \A i, j \in 1..Len(ms) : ms[i] = ms[j] => i = j}
\* MemberNameHistory[] as getMemberNameHistory returns it for a member: whose
\* history it is and how many entries it has
HistoryLengths == [MemberIds -> {1, 2}]
History(memberId, lengths) == [of |-> memberId, length |-> lengths[memberId]]

\* const allHistories = await Promise.all(historyPromises): one history per
\* member asked for, in the order asked
AllHistories(asked, lengths) == [k \in 1..Len(asked) |-> History(asked[k], lengths)]

\* props.memberActivity.forEach((member, index) => { ... push ... })
RECURSIVE MembersWithChanges(_, _, _)
MembersWithChanges(activity, allHistories, index) ==
    IF index > Len(activity) THEN <<>>
    ELSE (IF allHistories[index].length > 1
          THEN <<[memberId |-> activity[index], history |-> allHistories[index]]>>
          ELSE <<>>)
         \o MembersWithChanges(activity, allHistories, index + 1)

\* loadMembersWithNicknameChanges up to its await, for the props sid and
\* activity: returns at once without a session or without members
LoadMembersCall(sid, activity) ==
    IF sid = "" \/ Len(activity) = 0
    THEN UNCHANGED <<isLoadingHistory, historyPc, historyAsked, lastLoad>>
    ELSE \E c \in Loads :
            /\ historyPc[c] = "idle"
            /\ \A d \in Loads : d < c => historyPc[d] # "idle"
            /\ isLoadingHistory' = TRUE
            /\ historyPc' = [historyPc EXCEPT ![c] = "pending"]
            /\ historyAsked' = [historyAsked EXCEPT ![c] = activity]
            /\ lastLoad' = NoLoad

\* the parent changes sessionId or the number of members: the watcher of
\* [props.sessionId, props.memberActivity.length] calls the load
PropsChangeWatched(sid, activity) ==
    /\ sid # propSessionId \/ Len(activity) # Len(memberActivity)
    /\ propSessionId' = sid
    /\ memberActivity' = activity
    /\ LoadMembersCall(sid, activity)
    /\ UNCHANGED <<membersWithNicknameChanges, nicknameFrame>>

\* the parent replaces memberActivity by a list of the same length (another
\* time filter, another order): the watcher's sources are unchanged
PropsChangeUnwatched(activity) ==
    /\ activity # memberActivity
    /\ Len(activity) = Len(memberActivity)
    /\ memberActivity' = activity
    /\ UNCHANGED <<propSessionId, membersWithNicknameChanges, isLoadingHistory,
                   historyPc, historyAsked, lastLoad, nicknameFrame>>

\* Promise.all resolved: the rest of the try block and finally.  Reading
\* history.length of a missing history throws, which the catch logs.
HistoriesResolve(c, lengths) ==
    /\ historyPc[c] = "pending"
    /\ historyPc' = [historyPc EXCEPT ![c] = "idle"]
    /\ LET allHistories == AllHistories(historyAsked[c], lengths)
           threw == Len(memberActivity) > Len(allHistories)
       IN /\ membersWithNicknameChanges' =
                 IF threw THEN membersWithNicknameChanges
                 ELSE MembersWithChanges(memberActivity, allHistories, 1)
          /\ lastLoad' = [kind |-> "ok", before |-> membersWithNicknameChanges,
                          asked |-> historyAsked[c], lengths |-> lengths,
                          activity |-> memberActivity]
    /\ isLoadingHistory' = FALSE
    /\ UNCHANGED <<propSessionId, memberActivity, historyAsked, nicknameFrame>>

\* Promise.all rejected (one getMemberNameHistory failed): catch and finally
HistoriesReject(c) ==
    /\ historyPc[c] = "pending"
    /\ historyPc' = [historyPc EXCEPT ![c] = "idle"]
    /\ isLoadingHistory' = FALSE
    /\ lastLoad' = [kind |-> "failed", before |-> membersWithNicknameChanges,
                    asked |-> historyAsked[c], lengths |-> <<>>,
                    activity |-> memberActivity]
    /\ UNCHANGED <<propSessionId, memberActivity, membersWithNicknameChanges,
                   historyAsked, nicknameFrame>>

InitNicknameSpec ==
    /\ InitNickname
    /\ InitChangelog(Null, Null) /\ InitUpdater
    /\ InitStore(Null) /\ InitImport /\ InitOps
    /\ InitTruncate("", 0) /\ InitRank(<<>>, 0, 0) /\ InitModal

NextNickname ==
    \/ \E sid \in PropSessionIds, activity \in MemberActivities :
           PropsChangeWatched(sid, activity)
    \/ \E activity \in MemberActivities : PropsChangeUnwatched(activity)
    \/ \E c \in Loads, lengths \in HistoryLengths : HistoriesResolve(c, lengths)
    \/ \E c \in Loads : HistoriesReject(c)

SpecNickname == InitNicknameSpec /\ [][NextNickname]_vars

(* ======================= importFileFromPath: claims ==================== *)

\* C1: within one importFileFromPath call, the progress events its callback
\* received (all but those of stage 'done') are written to importProgress one
\* after another, each once and in the order received: at every moment the
\* events written so far followed by the events still queued are exactly the
\* events received, in order.
ProgressShownInOrder ==
    \A c \in Calls : shown[c] \o queue[c] = received[c]

\* Two events of different stages were queued, and both have been shown.
ProgressShownInOrderWitness ==
    \E c \in Calls :
        /\ Len(shown[c]) >= 2
        /\ shown[c] = received[c]
        /\ shown[c][1].stage # shown[c][2].stage
        /\ importProgress = shown[c][Len(shown[c])]

\* C2: every stage shown in importProgress, the initial 'detecting' included,
\* has been on display for at least MIN_STAGE_TIME when another stage replaces
\* it or when the bar is completed to 100.
EveryStageShownMinTime == minDisplay >= MIN_STAGE_TIME

\* C3: importFileFromPath never throws.  A call whose import result is
\* unsuccessful, lacks a sessionId or was an exception returns
\* { success: false, error: <non-empty> }; isImporting is false once the call
\* has returned; and sessions and currentSessionId change in no step other than
\* the final one of a call whose import succeeded with a sessionId.
ImportFailureReturned ==
    /\ \A c \in Calls :
           (pc[c] = "returned" /\ ~(importResult[c].success /\ importResult[c].sessionId # ""))
               => (ret[c].success = FALSE /\ ret[c].error # "")
    /\ (\A c \in Calls : pc[c] \in {"idle", "returned"}) => ~isImporting

ImportFailureLeavesSessions ==
    (sessions' # sessions \/ currentSessionId' # currentSessionId)
        => \E c \in Calls :
               /\ pc[c] = "loading" /\ pc'[c] = "returned"
               /\ importResult[c].success /\ importResult[c].sessionId # ""
               /\ ret'[c].success

ImportNeverThrows == []ImportFailureReturned /\ [][ImportFailureLeavesSessions]_vars

\* A call reported success without a sessionId and has returned the default error.
ImportNeverThrowsWitness ==
    \E c \in Calls :
        /\ pc[c] = "returned"
        /\ importResult[c].success /\ importResult[c].sessionId = ""
        /\ ret[c] = [success |-> FALSE, error |-> DEFAULT_IMPORT_ERROR]
        /\ ~isImporting

\* C4: a call whose import succeeded with a sessionId reloads the session list
\* first and selects the session afterwards: when it has returned
\* { success: true }, currentSessionId is the imported sessionId, whatever
\* list the reload produced.
ImportedSessionSelected ==
    \A c \in Calls :
        (pc[c] = "returned" /\ ret[c].success)
            => currentSessionId = importResult[c].sessionId

\* The reloaded list does not hold the imported session, and it is selected.
ImportedSessionSelectedWitness ==
    \E c \in Calls :
        /\ pc[c] = "returned" /\ ret[c].success
        /\ isInitialized
        /\ ~HasSession(sessions, importResult[c].sessionId)
        /\ currentSessionId = importResult[c].sessionId

(* ==================== loadSessions, deleteSession: claims ============== *)
LoadSessionsCompletes == loadPc = "awaiting" /\ loadPc' = "done"

\* C5: when loadSessions completes, isInitialized is true whether getSessions
\* succeeded or threw; when getSessions threw, sessions and currentSessionId
\* are as they were.
LoadSessionsAlwaysInitializes ==
    [][LoadSessionsCompletes =>
          /\ isInitialized'
          /\ ~loadReply'.ok => UNCHANGED <<sessions, currentSessionId>>]_vars

\* getSessions threw while a session list and a selection were in place.
LoadSessionsAlwaysInitializesWitness ==
    /\ loadPc = "done" /\ ~loadReply.ok
    /\ isInitialized
    /\ before.sessions # <<>> /\ before.currentSessionId # Null
    /\ sessions = before.sessions /\ currentSessionId = before.currentSessionId

\* C6: when loadSessions completes successfully, sessions is the list
\* getSessions returned and currentSessionId is null or the id of a session of
\* that list: a selected id that is not in the list is cleared, one that is in
\* the list is kept.
LoadSessionsKeepsValidSelection ==
    [][(LoadSessionsCompletes /\ loadReply'.ok) =>
          /\ sessions' = loadReply'.list
          /\ currentSessionId' = Null \/ HasSession(sessions', currentSessionId')
          /\ HasSession(loadReply'.list, currentSessionId)
                 => currentSessionId' = currentSessionId
          /\ ~HasSession(loadReply'.list, currentSessionId)
                 => currentSessionId' = Null]_vars

\* A selection that the new, non-empty list no longer holds was cleared.
LoadSessionsKeepsValidSelectionWitness ==
    /\ loadPc = "done" /\ loadReply.ok
    /\ before.currentSessionId # Null
    /\ sessions # <<>>
    /\ ~HasSession(sessions, before.currentSessionId)
    /\ currentSessionId = Null

DeleteSessionCompletes == delPc = "awaiting" /\ delPc' = "done"

\* C7: deleteSession(id) returns true only when the backend reported success,
\* and then no session with that id remains in sessions and currentSessionId
\* is null if it was id and unchanged otherwise; when the backend reported
\* false or threw, it returns false and leaves sessions and currentSessionId
\* as they were.
DeleteSessionFollowsBackend ==
    [][DeleteSessionCompletes =>
          /\ delRet' <=> delReply' = "true"
          /\ delRet' =>
                 /\ ~HasSession(sessions', delId)
                 /\ currentSessionId' =
                        IF currentSessionId = delId THEN Null ELSE currentSessionId
          /\ ~delRet' => UNCHANGED <<sessions, currentSessionId>>]_vars

\* The selected session was deleted from a list of two; the other one stays.
DeleteSessionFollowsBackendWitness ==
    /\ delPc = "done" /\ delRet /\ delReply = "true"
    /\ Len(before.sessions) = 2
    /\ before.currentSessionId = delId
    /\ HasSession(before.sessions, delId)
    /\ Len(sessions) = 1 /\ ~HasSession(sessions, delId)
    /\ currentSessionId = Null

(* ===================== presentation helpers: claims ==================== *)

\* C8 as stated: for every content and every maxLength, truncateContent
\* returns at most maxLength + 3 characters.
TruncatedWithinLimit ==
    truncateDone => Len(truncated) <= argMaxLength + 3

\* C8 (amended): for every content and every maxLength >= 0, truncateContent
\* returns at most maxLength + 3 characters.
TruncatedWithinLimitNonNegative ==
    (truncateDone /\ argMaxLength >= 0) => Len(truncated) <= argMaxLength + 3

\* A content longer than maxLength was cut to maxLength characters plus '...'.
TruncatedWithinLimitWitness ==
    /\ truncateDone
    /\ argMaxLength >= 1
    /\ Len(argContent) > argMaxLength
    /\ Len(truncated) = argMaxLength + 3
    /\ truncated = SubSeq(argContent, 1, argMaxLength) \o "..."

\* The largest value among the displayed members (0 for none).
RECURSIVE MaxOf(_)
MaxOf(list) == IF list = <<>> THEN 0 ELSE Max(Head(list), MaxOf(Tail(list)))

\* The percentage relative to the maximum of the displayed members.
PercentOfMaximum ==
    IF MaxOf(displayMembers) = 0 THEN 0
    ELSE RoundPercent(displayMembers[argIndex + 1], MaxOf(displayMembers))

\* C9 as stated: for every members list and every index of a displayed member,
\* getRelativePercentage(index) is an integer between 0 and 100, computed
\* relative to the maximum value among the displayed members.
PercentageRelativeToMaximum ==
    percentageDone => (percentage \in 0..100 /\ percentage = PercentOfMaximum)

\* displayMembers is a ranking: values in non-increasing order.
Ranked == \A i \in 1..(Len(displayMembers) - 1) : displayMembers[i] >= displayMembers[i + 1]

\* C9 (amended): for every members list whose displayed members are in
\* non-increasing order of (non-negative) value, getRelativePercentage(index)
\* is an integer between 0 and 100, computed relative to the value of the first
\* displayed member, which is then the maximum.
PercentageRelativeToFirst ==
    (percentageDone /\ Ranked) => (percentage \in 0..100 /\ percentage = PercentOfMaximum)

\* A ranking cut by rankLimit, a member below the first: a percentage strictly
\* between 0 and 100.
PercentageRelativeToFirstWitness ==
    /\ percentageDone /\ Ranked
    /\ rankLimit > 0 /\ Len(members) > rankLimit
    /\ argIndex > 0
    /\ percentage > 0 /\ percentage < 100

(* ========================= settings modal: claims ====================== *)

OpenResetsActiveTab ==
    [][(~open /\ open') =>
         activeTab' = IF settingTarget # NoTarget THEN settingTarget.tab
                      ELSE IF modalVersion = "intermediate" THEN "ai-model"
                      ELSE "settings"]_vars

\* The intermediate modal was closed on another tab than the default and has
\* been opened again: it shows the default tab.
OpenResetsActiveTabWitness ==
    /\ modalVersion = "intermediate"
    /\ open
    /\ tabAtClose \in {"ai-chat", "settings", "help"}
    /\ activeTab = "ai-model"


(* ========================= changelog modal: claims ===================== *)

\* C12: a checkNewVersion run that found no agreement entry in localStorage
\* has returned at once: it made no remote changelog fetch, did not open the
\* changelog modal and did not store a read version.
NoCheckWithoutAgreement ==
    \A i \in Mounts :
        (checkPc[i] # "unmounted" /\ ~checkAgreed[i]) =>
            /\ checkPc[i] = "returned"
            /\ ~checkFetched[i]
            /\ ~checkOpened[i]

\* A check returned for lack of the agreement, which the user has accepted
\* since; nothing was stored as read.
NoCheckWithoutAgreementWitness ==
    \E i \in Mounts :
        /\ checkPc[i] = "returned" /\ ~checkAgreed[i]
        /\ agreementVersion # Null
        /\ readVersionStored = Null
        /\ ~showModal

\* C13, the opening step: checkNewVersion opens the modal only when the stored
\* read version (normalized) differed from the current app version and the
\* fetched changelog contains the current version; the step stores the current
\* version as read, and the modal was not auto-opened for that version before.
AutoOpenStep ==
    \A i \in Mounts :
        (~checkOpened[i] /\ checkOpened'[i]) =>
            /\ checkRead[i] # checkVersion[i]
            /\ CurrentVersionExists(checkData[i], checkVersion[i])
            /\ readVersionStored' = checkVersion[i]
            /\ (i = live => checkVersion[i] \notin autoOpenedFor)

\* C13, later checks: a checkNewVersion started after the modal was auto-opened
\* for the current app version neither fetches nor opens.
NoCheckAfterAutoOpen ==
    \A j \in Mounts :
        normalizeVersion(AppVersions[appVersion]) \in openedAtMount[j] =>
            ~checkFetched[j] /\ ~checkOpened[j]

\* C13: for a given app version the changelog modal is auto-opened at most
\* once across component mounts.
AutoOpenedAtMostOnce == [][AutoOpenStep]_vars /\ []NoCheckAfterAutoOpen

\* A later mount, after the modal was auto-opened for this app version: its
\* check got the version, found it read and returned.
AutoOpenedAtMostOnceWitness ==
    \E j \in Mounts :
        /\ checkPc[j] = "returned" /\ checkAgreed[j]
        /\ checkVersion[j] # Null
        /\ checkVersion[j] \in openedAtMount[j]
        /\ ~checkFetched[j]

\* C14: isLoading is true while a fetchChangelogs request is pending and false
\* once one has settled; after a failure loadError is non-null and changelogs
\* is what it was, after a success loadError is null and changelogs is the
\* fetched data.
FetchStateConsistent ==
    /\ (fetchPending > 0 => isLoading)
    /\ (lastSettle.kind # "none" => ~isLoading)
    /\ (lastSettle.kind = "failed" =>
            loadError # Null /\ changelogs = lastSettle.before)
    /\ (lastSettle.kind = "ok" =>
            loadError = Null /\ changelogs = lastSettle.data)


(* ========================== auto-updater: claims ======================= *)

\* C15: for one checkUpdate registration at most one 'new version found'
\* dialog is open at any time: every update-available event leaves exactly one
\* dialog open, so an event arriving while the dialog is open opens no second
\* one, and an event arriving after the dialog was answered opens it again.
OneUpdateDialogOpen ==
    /\ [](availableDialogs <= 1)
    /\ [][availableEvents' # availableEvents => availableDialogs' = 1]_vars

\* An event was ignored while the dialog was open, the dialog was answered
\* and a later update-available event has opened it again.
OneUpdateDialogOpenWitness ==
    /\ availableDialogs = 1
    /\ availableEvents = 3
    /\ availableAnswered[0] + availableAnswered[1] = 1

\* C16: autoUpdater.downloadUpdate is invoked once for each new-version dialog
\* answered with button 0 and never otherwise; autoUpdater.quitAndInstall is
\* invoked (or its timer is still pending) once for each install dialog
\* answered with button 0 and never otherwise.
UpdaterActsOnChoiceOnly ==
    /\ downloadCalls = availableAnswered[0]
    /\ installCalls + installTimers = downloadedAnswered[0]

\* Both dialogs were declined at least once and accepted once, and the
\* update has been installed.
UpdaterActsOnChoiceOnlyWitness ==
    /\ availableAnswered[1] > 0
    /\ downloadedAnswered[1] + downloadedAnswered[2] > 0
    /\ downloadCalls > 0
    /\ installCalls = 1

\* C17: only the update-not-available result of the startup check is kept
\* from the window; that of every later check sends the 'already the latest
\* version' message.
OnlyStartupCheckSilenced ==
    /\ silencedChecks \subseteq {"startup"}
    /\ messagedChecks \subseteq {"manual"}


(* ======================== timeline page: claims ======================== *)

\* the members of activity for which the call fetched a history (asked) and
\* whose history, fetched for their own memberId, has more than one entry, in
\* order, each with that history
RECURSIVE ExpectedMembers(_, _, _, _)
ExpectedMembers(activity, asked, lengths, index) ==
    IF index > Len(activity) THEN <<>>
    ELSE (IF /\ \E k \in 1..Len(asked) : asked[k] = activity[index]
             /\ lengths[activity[index]] > 1
          THEN <<[memberId |-> activity[index],
                  history |-> [of |-> activity[index],
                               length |-> lengths[activity[index]]]]>>
          ELSE <<>>)
         \o ExpectedMembers(activity, asked, lengths, index + 1)

\* C18: when a loadMembersWithNicknameChanges call has completed,
\* isLoadingHistory is false; if its fetches succeeded the list holds exactly
\* the members of memberActivity (as it was when the call completed) with more
\* than one history entry, in order, each with the history of its own
\* memberId; if a fetch failed the list is what it was.
NicknameListFaithful ==
    /\ (lastLoad.kind # "none" => ~isLoadingHistory)
    /\ (lastLoad.kind = "failed" => membersWithNicknameChanges = lastLoad.before)
    /\ (lastLoad.kind = "ok" =>
            membersWithNicknameChanges =
                ExpectedMembers(lastLoad.activity, lastLoad.asked, lastLoad.lengths, 1))


(* =================== importFileFromPath: the drain loop ================ *)

\* per call: at most one drain loop is active, it is the one isProcessing
\* stands for, a loop waiting out the minimum stage time has events queued,
\* and no event is queued when no loop is active
OneLoopPerCall ==
    \A c \in Calls :
        /\ activeLoops[c] <= 1
        /\ isProcessing[c] <=> activeLoops[c] = 1
        /\ pqWake[c] # NoTimer => (activeLoops[c] = 1 /\ queue[c] # <<>>)
        /\ activeLoops[c] = 0 => queue[c] = <<>>

\* a progress callback that arrives while the loop waits only appends the
\* event to the queue: it starts no loop, displays nothing and arms no timer
ArrivalWhileWaitingAppends ==
    \A c \in Calls :
        (pqWake[c] # NoTimer /\ received'[c] # received[c]) =>
            /\ queue'[c] = Append(queue[c], received'[c][Len(received'[c])])
            /\ activeLoops'[c] = activeLoops[c]
            /\ shown'[c] = shown[c]
            /\ pqWake'[c] = pqWake[c]

\* C19: at most one processQueue drain loop is active at any time during an
\* import; a progress callback arriving while the loop waits out the minimum
\* stage time only appends to the queue, and every event appended while a loop
\* is active is consumed by that loop before it exits.
SingleDrainLoop == []OneLoopPerCall /\ [][ArrivalWhileWaitingAppends]_vars

\* The loop waits for the minimum stage time and a second event has been
\* appended behind the one it waits for.
SingleDrainLoopWitness ==
    \E c \in Calls :
        /\ pqWake[c] # NoTimer
        /\ activeLoops[c] = 1
        /\ Len(queue[c]) >= 2

\* C20: when importFileFromPath returns, its queue is empty, no drain loop is
\* running, every event it received has been displayed and
\* importProgress.progress is 100.
ReturnsAfterDrain ==
    [][\A c \in Calls :
          (pc[c] # "returned" /\ pc'[c] = "returned") =>
              /\ queue[c] = <<>>
              /\ ~isProcessing[c]
              /\ shown[c] = received[c]
              /\ importProgress.progress = 100]_vars

\* C21: a progress event whose stage is 'done' is never put in a queue and
\* never written to importProgress: no queued or displayed event has stage
\* 'done' and importProgress.stage is never 'done'.
DoneNeverShown ==
    /\ importProgress.stage # "done"
    /\ \A c \in Calls :
          /\ \A i \in 1..Len(queue[c]) : queue[c][i].stage # "done"
          /\ \A i \in 1..Len(shown[c]) : shown[c][i].stage # "done"

\* The first call is importing, the pipeline has sent it one event and the
\* callback kept nothing of it: the event's stage was 'done'.
DoneNeverShownWitness ==
    /\ pc[1] = "importing"
    /\ delivered = 1
    /\ received[1] = <<>>
    /\ queue[1] = <<>>
    /\ importProgress.stage = InitialStage

\* C22: whenever isImporting is true importProgress is non-null, for every
\* sequence of imports, a new import started within 500 ms of the end of the
\* previous one included.
ImportingShowsProgress == isImporting => importProgress # NullProgress

====
